---- MODULE Spec2Model ----
(***************************************************************************)
(* A model of tensorboardX/summary.py: the encoders that turn numeric      *)
(* arrays into Summary records.  Every encoder is a call made from the     *)
(* idle state; make_video, the one operation that touches the filesystem,  *)
(* is modelled statement by statement.                                     *)
(*                                                                         *)
(* Numbers.  Floating point values are modelled by exact rationals with a  *)
(* named denominator: histogram values are integers, bucket limits carry   *)
(* their denominator (limit_den), audio samples are k/ADen, predictions    *)
(* are k/PDen.  Strings are sequences of one-character strings.            *)
(***************************************************************************)
EXTENDS Integers, Sequences, FiniteSets, TLC

VARIABLES pc, op, result, out, fs, vid

vars == <<pc, op, result, out, fs, vid>>

(***************************************************************************)
(* Bounds of the model.                                                    *)
(***************************************************************************)
MaxTagLen == 3
MaxLen == 3
MaxVal == 2
MaxBins == 3
MaxRank == 2
MaxFrames == 2
ADen == 2
MaxCats == 1
MaxCharts == 1
MaxChartTags == 4
MaxSamples == 2
MaxPrSamples == 1
PDen == 2
MaxWeight == 1
MaxNT == 3

(***************************************************************************)
(* Generic helpers.                                                        *)
(***************************************************************************)
SeqUpTo(S, n) == UNION {[1..k -> S] : k \in 0..n}

Max2(a, b) == IF a >= b THEN a ELSE b

Min2(a, b) == IF a <= b THEN a ELSE b

Abs(a) == IF a < 0 THEN -a ELSE a

\* The sum of s[lo..hi], halving the range so that long rows stay shallow.
RECURSIVE SumRange(_, _, _)
SumRange(s, lo, hi) ==
    IF lo > hi THEN 0
    ELSE IF lo = hi THEN s[lo]
    ELSE LET m == (lo + hi) \div 2
         IN  SumRange(s, lo, m) + SumRange(s, m + 1, hi)

SumSeq(s) == SumRange(s, 1, Len(s))

RECURSIVE SeqMin(_)
SeqMin(s) == IF Len(s) = 1 THEN s[1] ELSE Min2(s[1], SeqMin(Tail(s)))

RECURSIVE SeqMax(_)
SeqMax(s) == IF Len(s) = 1 THEN s[1] ELSE Max2(s[1], SeqMax(Tail(s)))

Reversed(s) == [i \in 1..Len(s) |-> s[Len(s) + 1 - i]]

\* Python values: None, a returned value, a raised exception.
None == [kind |-> "None"]

Str(s) == [kind |-> "str", chars |-> s]

Return(v) == [kind |-> "return", value |-> v]

Raise(e) == [kind |-> "raise", exc |-> e]

NoResult == [kind |-> "pending"]

(***************************************************************************)
(* _clean_tag                                                              *)
(***************************************************************************)
\* The characters of the model.  \w matches the letters, the digits and the
\* underscore.  Names are drawn over Alphabet: a letter, a digit, the
\* underscore, the three punctuation characters the pattern lets through and
\* two characters it does not.
Letters == {"a", "e", "m", "r", "s", "t", "u", "x", "y"}

Digits == {"7"}

WordChars == Letters \cup Digits \cup {"_"}

Alphabet == {"a", "7", "_", ".", "-", "/", " ", "#"}

\* _INVALID_TAG_CHARACTERS = re.compile(r'[^-/\w\.]')
InvalidTagCharacter(c) == ~(c \in WordChars \/ c = "-" \/ c = "/" \/ c = ".")

\* _INVALID_TAG_CHARACTERS.sub('_', name)
SubInvalid(s) == [i \in 1..Len(s) |-> IF InvalidTagCharacter(s[i]) THEN "_" ELSE s[i]]

\* A plausible slip: only the first leading slash is removed.
LStripSlashOnce(s) == IF s # <<>> /\ Head(s) = "/" THEN Tail(s) ELSE s

\* str.lstrip('/')
RECURSIVE LStripSlash(_)
LStripSlash(s) == IF s # <<>> /\ Head(s) = "/" THEN LStripSlash(Tail(s)) ELSE s

\* The result and the log line of _clean_tag(name).
clean_tag_full(name) ==
    IF name.kind = "None"
    THEN [name |-> name, logged |-> FALSE]
    ELSE LET new_name == LStripSlash(SubInvalid(name.chars))
         IN  IF new_name # name.chars
             THEN [name |-> Str(new_name), logged |-> TRUE]
             ELSE [name |-> name, logged |-> FALSE]

clean_tag(name) == clean_tag_full(name).name

Tags == {Str(s) : s \in SeqUpTo(Alphabet, MaxTagLen)}

(***************************************************************************)
(* numpy.histogram, as make_histogram and compute_curve call it.           *)
(***************************************************************************)
\* A bucket specification: a count, or explicit edges.
IntBins(n) == [kind |-> "int", n |-> n]

EdgeBins(e) == [kind |-> "edges", edges |-> e]

\* The edges of `n` equal-width bins over [lo2/2, hi2/2], each multiplied by
\* 2n; a range of zero width is widened by one half on both sides.
LinspaceEdges(lo2, hi2, n) ==
    LET l == IF lo2 = hi2 THEN lo2 - 1 ELSE lo2
        h == IF lo2 = hi2 THEN hi2 + 1 ELSE hi2
    IN  [k \in 1..(n + 1) |-> l * n + (k - 1) * (h - l)]

\* x (scaled like the edges) falls in bin k: half-open bins, the last closed.
InBin(x, k, edges) ==
    /\ edges[k] <= x
    /\ \/ x < edges[k + 1]
       \/ k = Len(edges) - 1 /\ x = edges[k + 1]

RECURSIVE WeightIn(_, _, _, _, _)
WeightIn(a, w, den, k, edges) ==
    IF a = <<>> THEN 0
    ELSE (IF InBin(Head(a) * den, k, edges) THEN Head(w) ELSE 0)
         + WeightIn(Tail(a), Tail(w), den, k, edges)

Ones(a) == [i \in 1..Len(a) |-> 1]

\* np.histogram(values, bins=bins): counts, the edges and their denominator.
np_histogram(values, bins) ==
    LET den   == IF bins.kind = "int" THEN 2 * bins.n ELSE 1
        edges == IF bins.kind = "int"
                 THEN LinspaceEdges(2 * SeqMin(values), 2 * SeqMax(values), bins.n)
                 ELSE bins.edges
    IN  [counts |-> [k \in 1..(Len(edges) - 1) |-> WeightIn(values, Ones(values), den, k, edges)],
         edges  |-> edges,
         den    |-> den]

\* np.histogram(a, bins=n, range=(lo, hi), weights=w): the weighted counts.
np_histogram_range(a, n, lo, hi, w) ==
    LET edges == LinspaceEdges(2 * lo, 2 * hi, n)
    IN  [k \in 1..n |-> WeightIn(a, w, 2 * n, k, edges)]

(***************************************************************************)
(* make_histogram                                                          *)
(***************************************************************************)
Unbound == -1

\* The index (from 0) of the first positive count, or Unbound.
RECURSIVE FirstPositive(_, _)
FirstPositive(counts, i) ==
    IF i >= Len(counts) THEN Unbound
    ELSE IF counts[i + 1] > 0 THEN i
    ELSE FirstPositive(counts, i + 1)

\* A plausible slip: the guard bucket is taken on the wrong side.
HistStartOffByOne(counts) ==
    LET i == FirstPositive(counts, 0)
    IN  IF i = Unbound THEN Unbound ELSE i + 1

\* for i, c in enumerate(counts): if c > 0: start = max(0, i - 1); break
HistStart(counts) ==
    LET i == FirstPositive(counts, 0)
    IN  IF i = Unbound THEN Unbound ELSE Max2(0, i - 1)

\* for i, c in enumerate(reversed(counts)): if c > 0: end = counts.size - i; break
HistEnd(counts) ==
    LET i == FirstPositive(Reversed(counts), 0)
    IN  IF i = Unbound THEN Unbound ELSE Len(counts) - i

\* seq[start:end] of Python, start and end counted from 0.
Slice(s, start, end) == SubSeq(s, start + 1, Min2(end, Len(s)))

Squares(s) == [i \in 1..Len(s) |-> s[i] * s[i]]

make_histogram(values, bins) ==
    IF Len(values) = 0 THEN Raise("ValueError")
    ELSE LET h      == np_histogram(values, bins)
             limits == Tail(h.edges)
             start  == HistStart(h.counts)
             end    == HistEnd(h.counts)
         IN  IF start = Unbound \/ end = Unbound THEN Raise("UnboundLocalError")
             ELSE LET counts2 == Slice(h.counts, start, end)
                      limits2 == Slice(limits, start, end)
                  IN  IF Len(counts2) = 0 \/ Len(limits2) = 0
                      THEN Raise("ValueError")
                      ELSE Return([min          |-> SeqMin(values),
                                   max          |-> SeqMax(values),
                                   num          |-> Len(values),
                                   sum          |-> SumSeq(values),
                                   sum_squares  |-> SumSeq(Squares(values)),
                                   bucket_limit |-> limits2,
                                   limit_den    |-> h.den,
                                   bucket       |-> counts2])

HistVals == (0 - 1)..MaxVal

HistValues == SeqUpTo(HistVals, MaxLen)

\* Explicit edges: the non-decreasing sequences numpy accepts.
IsNonDecreasing(s) == \A i \in 1..(Len(s) - 1) : s[i] <= s[i + 1]

EdgeSeqs == {e \in SeqUpTo(HistVals, MaxBins) : Len(e) >= 1 /\ IsNonDecreasing(e)}

BinSpecs == {IntBins(n) : n \in 1..MaxBins} \cup {EdgeBins(e) : e \in EdgeSeqs}

(***************************************************************************)
(* Arrays: a shape and the elements in row-major order.                    *)
(***************************************************************************)
RECURSIVE Size(_)
Size(shape) == IF shape = <<>> THEN 1 ELSE Head(shape) * Size(Tail(shape))

Array(shape, data) == [kind |-> "ndarray", shape |-> shape, data |-> data]

PyScalar(v) == [kind |-> "pyscalar", v |-> v]

\* ndarray.squeeze(): the dimensions of length one are dropped.
RECURSIVE SqueezeShape(_)
SqueezeShape(shape) ==
    IF shape = <<>> THEN <<>>
    ELSE IF Head(shape) = 1 THEN SqueezeShape(Tail(shape))
    ELSE <<Head(shape)>> \o SqueezeShape(Tail(shape))

Squeeze(a) == Array(SqueezeShape(a.shape), a.data)

Ndim(a) == Len(a.shape)

\* x2num.make_np without a modality: an array is passed through, a Python
\* number becomes an array of one element.
make_np(x) == IF x.kind = "pyscalar" THEN Array(<<1>>, <<x.v>>) ELSE x

Shapes(maxsize) == {s \in SeqUpTo(0..maxsize, MaxRank) : Size(s) <= maxsize}

ArraysOver(V, maxsize) ==
    UNION {{Array(s, d) : d \in [1..Size(s) -> V]} : s \in Shapes(maxsize)}

\* The tags the encoders are called with: clean, empty, with a leading slash,
\* with an illegal character.
EncTags == {Str(<<"a">>), Str(<<>>), Str(<<"/", "a">>), Str(<<"a", "#">>)}

\* Summary(value=[Summary.Value(tag=tag, <field>=value)])
Summary(tag, field, value) == [tag |-> tag, field |-> field, value |-> value]

(***************************************************************************)
(* scalar                                                                  *)
(***************************************************************************)
\* A plausible slip: a one-dimensional array passes the shape check.
ScalarShapeOkLoose(a) == Ndim(Squeeze(a)) <= 1 /\ Size(a.shape) >= 1

\* assert(scalar.squeeze().ndim == 0)
ScalarShapeOk(a) == Ndim(Squeeze(a)) = 0

scalar(name, x) ==
    LET tag == clean_tag(name)
        a   == make_np(x)
    IN  IF ~ScalarShapeOk(a) THEN Raise("AssertionError")
        ELSE Return(Summary(tag, "simple_value", a.data[1]))

ScalarInputs == {PyScalar(v) : v \in HistVals} \cup ArraysOver(HistVals, MaxLen)

(***************************************************************************)
(* audio                                                                   *)
(***************************************************************************)
\* Samples are the rationals k/ADen; the model draws them from [-1-1/ADen, 1+1/ADen].
AudioNums == (0 - ADen - 1)..(ADen + 1)

\* tensor.clip(-1, 1) on numerators over ADen
Clip(k) == Max2(0 - ADen, Min2(ADen, k))

\* A plausible slip: rounding down instead of toward zero.
FloorDiv(a, d) == a \div d

\* int(a / d) for d > 0: truncation toward zero.
TruncDiv(a, d) == IF a >= 0 THEN a \div d ELSE 0 - ((0 - a) \div d)

\* int(32767.0 * x) for x = k/ADen
Quantize(k) == TruncDiv(32767 * k, ADen)

\* struct.pack('<h', v), defined for -32768 <= v <= 32767
PackShort(v) == LET u == v % 65536 IN <<u % 256, u \div 256>>

RECURSIVE PackAll(_)
PackAll(vs) == IF vs = <<>> THEN <<>> ELSE PackShort(Head(vs)) \o PackAll(Tail(vs))

LE16(n) == <<n % 256, (n \div 256) % 256>>

LE32(n) == <<n % 256, (n \div 256) % 256, (n \div 65536) % 256, (n \div 16777216) % 256>>

\* The file the wave module leaves in the buffer for one channel of 16-bit
\* samples: the RIFF/WAVE header, the fmt chunk, the data chunk.
WaveFile(sample_rate, frames) ==
    LET datalength == Len(frames)
        nchannels  == 1
        sampwidth  == 2
    IN  <<82, 73, 70, 70>> \o LE32(36 + datalength) \o <<87, 65, 86, 69>>
        \o <<102, 109, 116, 32>> \o LE32(16) \o LE16(1) \o LE16(nchannels)
        \o LE32(sample_rate) \o LE32(nchannels * sample_rate * sampwidth)
        \o LE16(nchannels * sampwidth) \o LE16(sampwidth * 8)
        \o <<100, 97, 116, 97>> \o LE32(datalength)
        \o frames

\* The result of audio(tag, tensor, sample_rate) and whether it warned.
audio_full(tag, tensor, sample_rate) ==
    LET t0 == Squeeze(make_np(tensor))
    IN  IF Size(t0.shape) = 0
        THEN [res |-> Raise("ValueError"), warned |-> FALSE]
        ELSE LET over == \E i \in 1..Len(t0.data) : Abs(t0.data[i]) > ADen
                 t1   == IF over
                         THEN Array(t0.shape, [i \in 1..Len(t0.data) |-> Clip(t0.data[i])])
                         ELSE t0
             IN  IF Ndim(t1) # 1
                 THEN [res |-> Raise("AssertionError"), warned |-> over]
                 ELSE LET tensor_list == [i \in 1..Len(t1.data) |-> Quantize(t1.data[i])]
                          audio_string == WaveFile(sample_rate, PackAll(tensor_list))
                      IN  [res |-> Return(Summary(tag, "audio",
                                      [sample_rate          |-> sample_rate,
                                       num_channels         |-> 1,
                                       length_frames        |-> Len(tensor_list),
                                       encoded_audio_string |-> audio_string,
                                       content_type         |-> "audio/wav"])),
                           warned |-> over]

AudioInputs == ArraysOver(AudioNums, MaxFrames)

SampleRates == {8000, 44100}

(***************************************************************************)
(* custom_scalars                                                          *)
(***************************************************************************)
\* A chart: its kind and its tag list.  A category: its charts, in the
\* dictionary's order.  A layout: its categories.
ChartTagLists == {[i \in 1..n |-> i] : n \in 2..MaxChartTags}

ChartKinds == {"Margin", "Multiline"}

Charts == {<<k, tags>> : k \in ChartKinds, tags \in ChartTagLists}

Categories == SeqUpTo(Charts, MaxCharts)

Layouts == SeqUpTo(Categories, MaxCats)

\* A plausible slip: a Margin chart needs at least three tags.
ChartOkAtLeast(chart_metadata) ==
    chart_metadata[1] = "Margin" => Len(chart_metadata[2]) >= 3

\* if chart_meatadata[0] == 'Margin': assert len(tags) == 3
ChartOk(chart_metadata) ==
    chart_metadata[1] = "Margin" => Len(chart_metadata[2]) = 3

\* Chart(title, margin=MarginChartContent(series=[Series(value, lower, upper)]))
\* or Chart(title, multiline=MultilineChartContent(tag=tags))
ChartProto(chart_metadata) ==
    IF chart_metadata[1] = "Margin"
    THEN [margin |-> [value |-> chart_metadata[2][1],
                      lower |-> chart_metadata[2][2],
                      upper |-> chart_metadata[2][3]]]
    ELSE [multiline |-> chart_metadata[2]]

custom_scalars(layout) ==
    IF \E c \in 1..Len(layout) : \E j \in 1..Len(layout[c]) : ~ChartOk(layout[c][j])
    THEN Raise("AssertionError")
    ELSE Return(Summary([kind |-> "literal", text |-> "custom_scalars__config__"], "tensor",
                   [dtype      |-> "DT_STRING",
                    string_val |-> [c \in 1..Len(layout) |->
                                      [j \in 1..Len(layout[c]) |-> ChartProto(layout[c][j])]],
                    shape      |-> <<>>,
                    plugin     |-> "custom_scalars"]))

(***************************************************************************)
(* compute_curve, pr_curve, pr_curve_raw                                   *)
(***************************************************************************)
\* pr_curve and pr_curve_raw: num_thresholds is cut at 127.
MaxThresholds == 127

\* _MINIMUM_COUNT = 1e-7 is 1/EpsDen.
EpsDen == 10000000

Cumsum(s) == [i \in 1..Len(s) |-> SumRange(s, 1, i)]

\* A plausible slip: the sum runs from the lowest bucket up.
ForwardCumsum(b) == Cumsum(b)

\* np.cumsum(b[::-1])[::-1]
ReverseCumsum(b) == Reversed(Cumsum(Reversed(b)))

\* a / np.maximum(_MINIMUM_COUNT, b), as the fraction num/den
OverAtLeastEps(a, b) == [num |-> a * EpsDen, den |-> Max2(1, b * EpsDen)]

\* Predictions are the rationals k/PDen.
\* np.int32(np.floor(predictions * (num_thresholds - 1)))
BucketIndex(k, num_thresholds) == (k * (num_thresholds - 1)) \div PDen

\* The rows tp, fp, tn, fn, precision, recall.
compute_curve(labels, predictions, num_thresholds, weights) ==
    LET w  == IF weights.kind = "None" THEN Ones(labels) ELSE weights.data
        bucket_indices == [i \in 1..Len(predictions) |->
                             BucketIndex(predictions[i], num_thresholds)]
        tp_buckets == np_histogram_range(bucket_indices, num_thresholds, 0,
                          num_thresholds - 1,
                          [i \in 1..Len(labels) |-> labels[i] * w[i]])
        fp_buckets == np_histogram_range(bucket_indices, num_thresholds, 0,
                          num_thresholds - 1,
                          [i \in 1..Len(labels) |-> (1 - labels[i]) * w[i]])
        tp == ReverseCumsum(tp_buckets)
        fp == ReverseCumsum(fp_buckets)
        tn == [i \in 1..num_thresholds |-> fp[1] - fp[i]]
        fn == [i \in 1..num_thresholds |-> tp[1] - tp[i]]
        precision == [i \in 1..num_thresholds |-> OverAtLeastEps(tp[i], tp[i] + fp[i])]
        recall    == [i \in 1..num_thresholds |-> OverAtLeastEps(tp[i], tp[i] + fn[i])]
    IN  <<tp, fp, tn, fn, precision, recall>>

RECURSIVE Flatten(_)
Flatten(rows) == IF rows = <<>> THEN <<>> ELSE Head(rows) \o Flatten(Tail(rows))

\* The Summary both PR-curve entry points build around the stacked rows.
PrCurveSummary(tag, data, num_thresholds) ==
    Summary(tag, "tensor",
        [dtype          |-> "DT_FLOAT",
         float_val      |-> Flatten(data),
         shape          |-> <<Len(data), Len(data[1])>>,
         plugin         |-> "pr_curves",
         num_thresholds |-> num_thresholds])

pr_curve(tag, labels, predictions, num_thresholds, weights) ==
    LET nt   == Min2(num_thresholds, MaxThresholds)
        data == compute_curve(labels, predictions, nt, weights)
    IN  Return(PrCurveSummary(tag, data, nt))

\* np.stack needs rows of one length.
pr_curve_raw(tag, tp, fp, tn, fn, precision, recall, num_thresholds) ==
    LET nt   == IF num_thresholds > MaxThresholds THEN MaxThresholds ELSE num_thresholds
        rows == <<tp, fp, tn, fn, precision, recall>>
    IN  IF \E i \in 1..6 : Len(rows[i]) # Len(tp)
        THEN Raise("ValueError")
        ELSE Return(PrCurveSummary(tag, rows, nt))

PredNums == (0 - 1)..(PDen + 1)

WeightArray(d) == [kind |-> "ndarray", data |-> d]

\* weights for n samples: None, or one weight per sample.
WeightInputs(n) == {None} \cup {WeightArray(d) : d \in [1..n -> 0..MaxWeight]}

RequestedThresholds == (1..MaxNT) \cup {MaxThresholds, MaxThresholds + 1}

\* A row of a given length for pr_curve_raw.
RawRows == {[i \in 1..len |-> v] : len \in RequestedThresholds, v \in 0..MaxWeight}

(***************************************************************************)
(* histogram, image, image_boxes, text                                     *)
(***************************************************************************)
\* histogram(name, values, bins); values is taken flattened, as
\* make_histogram's reshape(-1) leaves it.
histogram(name, values, bins) ==
    LET tag  == clean_tag(name)
        hist == make_histogram(values, bins)
    IN  IF hist.kind = "raise" THEN hist
        ELSE Return(Summary(tag, "histo", hist.value))

\* _calc_scale_factor
calc_scale_factor(dtype) == IF dtype = "uint8" THEN 1 ELSE 255

\* (tensor * scale_factor).astype(np.uint8), for products within 0..255
ToUint8(data, scale_factor) == [i \in 1..Len(data) |-> (data[i] * scale_factor) % 256]

\* make_image without boxes: the PNG is carried as its size and pixels.
make_image(shape, pixels, rescale) ==
    [height     |-> shape[1],
     width      |-> shape[2],
     colorspace |-> shape[3],
     encoded_image_string |-> [format |-> "PNG",
                               size   |-> <<shape[2] * rescale, shape[1] * rescale>>,
                               pixels |-> pixels]]

image(tag, tensor, rescale) ==
    LET t      == clean_tag(tag)
        pixels == ToUint8(tensor.data, calc_scale_factor(tensor.dtype))
    IN  Return(Summary(t, "image", make_image(tensor.shape, pixels, rescale)))

\* make_image with rois calls draw_boxes, whose first statement after the
\* box count uses the name shuffle, which the module neither defines nor
\* imports.
image_boxes(tag, tensor_image, tensor_boxes, rescale) == Raise("NameError")

\* Images [height, width, channels]: uint8 pixels 0 or 255, float pixels 0 or 1.
ImageInputs ==
    {[dtype |-> d, shape |-> <<1, 1, c>>, data |-> [i \in 1..c |-> v]] :
        d \in {"float32"}, c \in {1, 3}, v \in {0, 1}}
    \cup
    {[dtype |-> d, shape |-> <<1, 1, c>>, data |-> [i \in 1..c |-> v]] :
        d \in {"uint8"}, c \in {1, 3}, v \in {0, 255}}

\* Boxes [class, xmin, ymin, xmax, ymax], one row each.
BoxInputs == {<<>>, <<<<0, 0, 0, 1, 1>>>>}

TextSuffix == <<"/", "t", "e", "x", "t", "_", "s", "u", "m", "m", "a", "r", "y">>

\* The ASCII code of a character of Alphabet.
Code(c) ==
    CASE c = "a" -> 97 [] c = "7" -> 55 [] c = "_" -> 95 [] c = "." -> 46
      [] c = "-" -> 45 [] c = "/" -> 47 [] c = " " -> 32 [] c = "#" -> 35

\* text.encode(encoding='utf_8')
EncodeUtf8(t) == [i \in 1..Len(t.chars) |-> Code(t.chars[i])]

text(tag, txt) ==
    Return(Summary(Str(tag.chars \o TextSuffix), "tensor",
        [dtype      |-> "DT_STRING",
         string_val |-> <<EncodeUtf8(txt)>>,
         shape      |-> <<1>>,
         plugin     |-> "text"]))

(***************************************************************************)
(* video and make_video, statement by statement.                           *)
(***************************************************************************)
\* Videos [time, height, width, channels].
VideoInputs ==
    {[dtype |-> d, shape |-> <<t, 1, 1, 1>>, data |-> [i \in 1..t |-> v]] :
        d \in {"float32"}, t \in {1, 2}, v \in {0, 1}}
    \cup
    {[dtype |-> d, shape |-> <<t, 1, 1, 1>>, data |-> [i \in 1..t |-> v]] :
        d \in {"uint8"}, t \in {1, 2}, v \in {0, 255}}

TempName == "tmp"

GifName == "tmp.gif"

(***************************************************************************)
(* Initial state and the calls.                                            *)
(***************************************************************************)
\* The locals of video and make_video: the cleaned tag, the uint8 frames, the
\* fps, whether a moviepy import failed, the temporary file's name, what
\* write_gif left in it, the bytes read back, make_video's return value.
NoVid == [tag |-> None, shape |-> <<>>, frames |-> <<>>, fps |-> 0, missing |-> FALSE,
          filename |-> "", gif |-> "none", tensor_string |-> None, video |-> None]

Init ==
    /\ pc = "idle"
    /\ op = [name |-> "none"]
    /\ result = NoResult
    /\ out = {}
    /\ fs = {}
    /\ vid = NoVid

CleanTagCall ==
    /\ pc = "idle"
    /\ \E name \in Tags \cup {None} :
          LET r == clean_tag_full(name)
          IN  /\ op' = [name |-> "_clean_tag", arg |-> name]
              /\ result' = Return(r.name)
              /\ out' = IF r.logged THEN {"illegal summary name"} ELSE {}
    /\ pc' = "done"
    /\ UNCHANGED <<fs, vid>>

MakeHistogramCall ==
    /\ pc = "idle"
    /\ \E values \in HistValues, bins \in BinSpecs :
          /\ op' = [name |-> "make_histogram", values |-> values, bins |-> bins]
          /\ result' = make_histogram(values, bins)
    /\ pc' = "done"
    /\ UNCHANGED <<out, fs, vid>>

ScalarCall ==
    /\ pc = "idle"
    /\ \E name \in EncTags, x \in ScalarInputs :
          /\ op' = [name |-> "scalar", tag |-> name, scalar |-> x]
          /\ result' = scalar(name, x)
          /\ out' = IF clean_tag_full(name).logged THEN {"illegal summary name"} ELSE {}
    /\ pc' = "done"
    /\ UNCHANGED <<fs, vid>>

AudioCall ==
    /\ pc = "idle"
    /\ \E tag \in EncTags, tensor \in AudioInputs, sample_rate \in SampleRates :
          LET r == audio_full(tag, tensor, sample_rate)
          IN  /\ op' = [name |-> "audio", tag |-> tag, tensor |-> tensor,
                        sample_rate |-> sample_rate]
              /\ result' = r.res
              /\ out' = IF r.warned THEN {"audio amplitude out of range"} ELSE {}
    /\ pc' = "done"
    /\ UNCHANGED <<fs, vid>>

CustomScalarsCall ==
    /\ pc = "idle"
    /\ \E layout \in Layouts :
          /\ op' = [name |-> "custom_scalars", layout |-> layout]
          /\ result' = custom_scalars(layout)
    /\ pc' = "done"
    /\ UNCHANGED <<out, fs, vid>>

ComputeCurveCall ==
    /\ pc = "idle"
    /\ \E n \in 0..MaxSamples, num_thresholds \in 1..MaxNT :
       \E labels \in [1..n -> {0, 1}], predictions \in [1..n -> PredNums],
          weights \in WeightInputs(n) :
          /\ op' = [name |-> "compute_curve", labels |-> labels,
                    predictions |-> predictions, num_thresholds |-> num_thresholds,
                    weights |-> weights]
          /\ result' = Return(compute_curve(labels, predictions, num_thresholds,
                                            weights))
    /\ pc' = "done"
    /\ UNCHANGED <<out, fs, vid>>

PrCurveCall ==
    /\ pc = "idle"
    /\ \E tag \in EncTags, n \in 0..MaxPrSamples, num_thresholds \in RequestedThresholds :
       \E labels \in [1..n -> {0, 1}], predictions \in [1..n -> PredNums],
          weights \in WeightInputs(n) :
          /\ op' = [name |-> "pr_curve", tag |-> tag, labels |-> labels,
                    predictions |-> predictions, num_thresholds |-> num_thresholds,
                    weights |-> weights]
          /\ result' = pr_curve(tag, labels, predictions, num_thresholds, weights)
    /\ pc' = "done"
    /\ UNCHANGED <<out, fs, vid>>

\* The caller supplies tp and fp; tn, fn, precision and recall are drawn as
\* one row.
PrCurveRawCall ==
    /\ pc = "idle"
    /\ \E tag \in EncTags, tp \in RawRows, rest \in RawRows,
          num_thresholds \in RequestedThresholds :
          /\ op' = [name |-> "pr_curve_raw", tag |-> tag, tp |-> tp, rest |-> rest,
                    num_thresholds |-> num_thresholds]
          /\ result' = pr_curve_raw(tag, tp, rest, rest, rest, rest, rest, num_thresholds)
    /\ pc' = "done"
    /\ UNCHANGED <<out, fs, vid>>

HistogramCall ==
    /\ pc = "idle"
    /\ \E name \in EncTags, values \in HistValues, bins \in BinSpecs :
          /\ op' = [name |-> "histogram", tag |-> name, values |-> values, bins |-> bins]
          /\ result' = histogram(name, values, bins)
          /\ out' = IF clean_tag_full(name).logged THEN {"illegal summary name"} ELSE {}
    /\ pc' = "done"
    /\ UNCHANGED <<fs, vid>>

ImageCall ==
    /\ pc = "idle"
    /\ \E tag \in EncTags, tensor \in ImageInputs :
          /\ op' = [name |-> "image", tag |-> tag, tensor |-> tensor]
          /\ result' = image(tag, tensor, 1)
          /\ out' = IF clean_tag_full(tag).logged THEN {"illegal summary name"} ELSE {}
    /\ pc' = "done"
    /\ UNCHANGED <<fs, vid>>

ImageBoxesCall ==
    /\ pc = "idle"
    /\ \E tag \in EncTags, tensor \in ImageInputs, boxes \in BoxInputs :
          /\ op' = [name |-> "image_boxes", tag |-> tag, tensor |-> tensor, boxes |-> boxes]
          /\ result' = image_boxes(tag, tensor, boxes, 1)
    /\ pc' = "done"
    /\ UNCHANGED <<out, fs, vid>>

TextCall ==
    /\ pc = "idle"
    /\ \E tag \in EncTags, txt \in EncTags :
          /\ op' = [name |-> "text", tag |-> tag, text |-> txt]
          /\ result' = text(tag, txt)
    /\ pc' = "done"
    /\ UNCHANGED <<out, fs, vid>>

\* video, up to its call of make_video.
VideoCall ==
    /\ pc = "idle"
    /\ \E tag \in EncTags, tensor \in VideoInputs :
          /\ op' = [name |-> "video", tag |-> tag, tensor |-> tensor, fps |-> 4]
          /\ vid' = [NoVid EXCEPT !.tag = clean_tag(tag),
                                  !.shape = tensor.shape,
                                  !.frames = ToUint8(tensor.data,
                                                 calc_scale_factor(tensor.dtype)),
                                  !.fps = 4]
          /\ out' = IF clean_tag_full(tag).logged THEN {"illegal summary name"} ELSE {}
    /\ pc' = "import_moviepy"
    /\ UNCHANGED <<result, fs>>

\* try: import moviepy / except ImportError: print(...); return
ImportMoviepy ==
    /\ pc = "import_moviepy"
    /\ \/ /\ pc' = "import_editor"
          /\ UNCHANGED <<out, vid>>
       \/ /\ out' = out \cup {"add_video needs package moviepy"}
          /\ vid' = [vid EXCEPT !.missing = TRUE, !.video = None]
          /\ pc' = "video_return"
    /\ UNCHANGED <<op, result, fs>>

\* try: from moviepy import editor as mpy / except ImportError: print(...); return
ImportEditor ==
    /\ pc = "import_editor"
    /\ \/ /\ pc' = "tempfile_open"
          /\ UNCHANGED <<out, vid>>
       \/ /\ out' = out \cup {"moviepy is installed, but can't import moviepy.editor."}
          /\ vid' = [vid EXCEPT !.missing = TRUE, !.video = None]
          /\ pc' = "video_return"
    /\ UNCHANGED <<op, result, fs>>

\* clip = mpy.ImageSequenceClip(...); with tempfile.NamedTemporaryFile() as f:
\* filename = f.name + '.gif'
TempfileOpen ==
    /\ pc = "tempfile_open"
    /\ fs' = fs \cup {TempName}
    /\ vid' = [vid EXCEPT !.filename = GifName]
    /\ pc' = "tempfile_close"
    /\ UNCHANGED <<op, result, out>>

\* Leaving the with block deletes the NamedTemporaryFile.
TempfileClose ==
    /\ pc = "tempfile_close"
    /\ fs' = fs \ {TempName}
    /\ pc' = "write_gif"
    /\ UNCHANGED <<op, result, out, vid>>

\* An exception other than TypeError leaves make_video and video.
EncoderRaises ==
    /\ result' = Raise("IOError")
    /\ pc' = "done"
    /\ \/ UNCHANGED <<fs, vid>>
       \/ /\ fs' = fs \cup {vid.filename}
          /\ vid' = [vid EXCEPT !.gif = "partial"]

\* try: clip.write_gif(filename, verbose=False, progress_bar=False)
WriteGif ==
    /\ pc = "write_gif"
    /\ \/ /\ fs' = fs \cup {vid.filename}
          /\ vid' = [vid EXCEPT !.gif = "complete"]
          /\ pc' = "read_back"
          /\ UNCHANGED result
       \/ /\ pc' = "write_gif_fallback"
          /\ UNCHANGED <<result, fs, vid>>
       \/ EncoderRaises
    /\ UNCHANGED <<op, out>>

\* except TypeError: clip.write_gif(filename, verbose=False)
WriteGifFallback ==
    /\ pc = "write_gif_fallback"
    /\ \/ /\ fs' = fs \cup {vid.filename}
          /\ vid' = [vid EXCEPT !.gif = "complete"]
          /\ pc' = "read_back"
          /\ UNCHANGED result
       \/ EncoderRaises
    /\ UNCHANGED <<op, out>>

\* with open(filename, 'rb') as f: tensor_string = f.read()
ReadBack ==
    /\ pc = "read_back"
    /\ \/ /\ vid' = [vid EXCEPT !.tensor_string = [format |-> "GIF", frames |-> vid.frames,
                                                    fps |-> vid.fps]]
          /\ pc' = "remove"
          /\ UNCHANGED result
       \/ /\ result' = Raise("IOError")
          /\ pc' = "done"
          /\ UNCHANGED vid
    /\ UNCHANGED <<op, out, fs>>

\* try: os.remove(filename) / except OSError: pass
\* return Summary.Image(height=h, width=w, colorspace=c, encoded_image_string=...)
RemoveAndReturn ==
    /\ pc = "remove"
    /\ \/ fs' = fs \ {vid.filename}
       \/ UNCHANGED fs
    /\ vid' = [vid EXCEPT !.video = [height     |-> vid.shape[2],
                                     width      |-> vid.shape[3],
                                     colorspace |-> vid.shape[4],
                                     encoded_image_string |-> vid.tensor_string]]
    /\ pc' = "video_return"
    /\ UNCHANGED <<op, result, out>>

\* return Summary(value=[Summary.Value(tag=tag, image=video)]); a field given
\* as None is left unset.
VideoReturn ==
    /\ pc = "video_return"
    /\ result' = Return(Summary(vid.tag, "image", vid.video))
    /\ pc' = "done"
    /\ UNCHANGED <<op, out, fs, vid>>

(***************************************************************************)
(* Claims about _clean_tag.                                                *)
(***************************************************************************)
AllowedChars == Letters \cup Digits \cup {"_", ".", "-", "/"}

TagIsClean(t) ==
    /\ t.kind = "str"
    /\ \A i \in 1..Len(t.chars) : t.chars[i] \in AllowedChars
    /\ (t.chars # <<>> => t.chars[1] # "/")

\* C3: for every string x, _clean_tag(_clean_tag(x)) = _clean_tag(x), the
\* result holds only letters, digits, '_', '.', '-', '/' and does not start
\* with '/'; for None the result is None.
C3_CleanTagIdempotentAndClean ==
    (pc = "done" /\ op.name = "_clean_tag") =>
        /\ result.kind = "return"
        /\ (op.arg.kind = "None" => result.value = None)
        /\ (op.arg.kind = "str" =>
               /\ TagIsClean(result.value)
               /\ clean_tag(result.value) = result.value)

\* A name with two leading slashes and an illegal character was cleaned.
C3_Witness ==
    /\ pc = "done" /\ op.name = "_clean_tag" /\ op.arg.kind = "str"
    /\ Len(op.arg.chars) = 3
    /\ op.arg.chars[1] = "/" /\ op.arg.chars[2] = "/" /\ op.arg.chars[3] = "#"
    /\ result = Return(Str(<<"_">>))
    /\ out # {}

(***************************************************************************)
(* Claims about make_histogram.                                            *)
(***************************************************************************)
IsStrictlyAscending(s) == \A i \in 1..(Len(s) - 1) : s[i] < s[i + 1]

\* C1: for a non-empty array and a bucket count >= 1, make_histogram returns a
\* histogram with len(bucket_limit) = len(bucket) >= 1, bucket_limit strictly
\* ascending and sum(bucket) <= len(values); the trimming drops no counted
\* value (every bucket it removes has count zero).
C1_HistogramBucketInvariant ==
    (pc = "done" /\ op.name = "make_histogram" /\ op.bins.kind = "int"
        /\ op.bins.n >= 1 /\ Len(op.values) >= 1) =>
        /\ result.kind = "return"
        /\ Len(result.value.bucket_limit) = Len(result.value.bucket)
        /\ Len(result.value.bucket) >= 1
        /\ IsStrictlyAscending(result.value.bucket_limit)
        /\ SumSeq(result.value.bucket) <= Len(op.values)
        /\ SumSeq(result.value.bucket) = SumSeq(np_histogram(op.values, op.bins).counts)

\* A histogram whose empty tail was trimmed and whose low guard bucket was kept.
C1_Witness ==
    /\ pc = "done" /\ op.name = "make_histogram" /\ op.bins.kind = "int"
    /\ result.kind = "return"
    /\ Len(result.value.bucket) = 2
    /\ op.bins.n = 3
    /\ result.value.bucket[1] = 0
    /\ result.value.bucket[2] = Len(op.values)

\* The cases of C2: no element, or no value counted in any bucket.
C2_Case ==
    /\ pc = "done" /\ op.name = "make_histogram"
    /\ \/ Len(op.values) = 0
       \/ \A k \in DOMAIN np_histogram(op.values, op.bins).counts :
             np_histogram(op.values, op.bins).counts[k] = 0

\* C2: with no input element, or with an empty trimmed bucket sequence (every
\* count zero), make_histogram raises ValueError and no other error.
C2_EmptyHistogramRaisesValueError ==
    C2_Case => result = Raise("ValueError")

(***************************************************************************)
(* Claims about audio.                                                     *)
(***************************************************************************)
WavHeaderSize == 44

\* The 16-bit sample stored little-endian at frame i of a WAV payload.
SampleAt(payload, i) ==
    LET u == payload[WavHeaderSize + 2 * i - 1] + 256 * payload[WavHeaderSize + 2 * i]
    IN  IF u >= 32768 THEN u - 65536 ELSE u

\* The value k/ADen brought into [-1, 1].
Clipped(k) == IF k > ADen THEN ADen ELSE IF k < 0 - ADen THEN 0 - ADen ELSE k

\* q is 32767 * c/ADen truncated toward zero.
IsTruncationOf(q, c) ==
    /\ Abs(q) * ADen <= 32767 * Abs(c)
    /\ 32767 * Abs(c) < (Abs(q) + 1) * ADen
    /\ (c >= 0 => q >= 0)
    /\ (c <= 0 => q <= 0)

C7_Case ==
    /\ pc = "done" /\ op.name = "audio"
    /\ Ndim(Squeeze(op.tensor)) = 1
    /\ Size(op.tensor.shape) >= 2

\* C7: for a 1-D input of n >= 2 samples audio returns a record; samples are
\* clipped to [-1, 1] (with a warning exactly when some |value| > 1) and each is
\* stored as 32767*x truncated toward zero, within [-32767, 32767]; the record
\* has num_channels 1, length_frames n, content type audio/wav and a payload of
\* the WAV header plus 2n bytes, all sample bytes zero for an all-zero input.
C7_AudioQuantization ==
    C7_Case =>
        /\ result.kind = "return"
        /\ result.value.field = "audio"
        /\ LET a == result.value.value
               x == op.tensor.data
               n == Len(x)
           IN  /\ a.num_channels = 1
               /\ a.length_frames = n
               /\ a.content_type = "audio/wav"
               /\ a.sample_rate = op.sample_rate
               /\ Len(a.encoded_audio_string) = WavHeaderSize + 2 * n
               /\ \A i \in 1..n :
                     LET q == SampleAt(a.encoded_audio_string, i)
                     IN  /\ q >= 0 - 32767 /\ q <= 32767
                         /\ IsTruncationOf(q, Clipped(x[i]))
               /\ ((\A i \in 1..n : x[i] = 0) =>
                     \A j \in (WavHeaderSize + 1)..(WavHeaderSize + 2 * n) :
                         a.encoded_audio_string[j] = 0)
               /\ ((out # {}) <=> (\E i \in 1..n : Abs(x[i]) > ADen))

\* A clipped input with a negative sample that truncation and rounding down
\* store differently.
C7_Witness ==
    /\ C7_Case
    /\ result.kind = "return"
    /\ out # {}
    /\ \E i \in 1..Len(op.tensor.data) :
          /\ op.tensor.data[i] < 0
          /\ (32767 * op.tensor.data[i]) % ADen # 0

(***************************************************************************)
(* Claims about the input checks.                                          *)
(***************************************************************************)
\* The exceptions that report an invalid input.
InvalidInput == {"ValueError", "AssertionError"}

FailsInvalidInput == result.kind = "raise" /\ result.exc \in InvalidInput

HasBadMarginChart(layout) ==
    \E c \in 1..Len(layout) : \E j \in 1..Len(layout[c]) :
        layout[c][j][1] = "Margin" /\ Len(layout[c][j][2]) # 3

TaggedEncoders == {"scalar", "histogram", "image", "image_boxes", "video", "audio",
                   "text", "pr_curve", "pr_curve_raw"}

\* C4: the record an encoder with a caller-supplied tag returns carries a
\* sanitized tag: only allowed characters, no leading '/'.
C4_RecordTagSanitized ==
    (pc = "done" /\ op.name \in TaggedEncoders /\ result.kind = "return") =>
        TagIsClean(result.value.tag)

(***************************************************************************)
(* Claims about the PR curves.                                             *)
(***************************************************************************)
\* A PR-curve call whose arguments agree: pr_curve, or pr_curve_raw given six
\* rows of num_thresholds entries each.
C5_Case ==
    /\ pc = "done"
    /\ \/ op.name = "pr_curve"
       \/ /\ op.name = "pr_curve_raw"
          /\ Len(op.tp) = op.num_thresholds
          /\ Len(op.rest) = op.num_thresholds

\* C5: both PR-curve entry points return a record (a num_thresholds above 127 is
\* no error) whose metadata num_thresholds is min(requested, 127) and whose
\* tensor has shape 6 by that same number.
C5_ThresholdsClampedInTensor ==
    C5_Case =>
        /\ result.kind = "return"
        /\ result.value.value.num_thresholds = Min2(op.num_thresholds, 127)
        /\ result.value.value.shape = <<6, result.value.value.num_thresholds>>

IsNonIncreasing(s) == \A i \in 1..(Len(s) - 1) : s[i] >= s[i + 1]

C6_Case ==
    /\ pc = "done" /\ op.name = "compute_curve"
    /\ \A i \in 1..Len(op.labels) : op.labels[i] \in {0, 1}
    /\ \A i \in 1..Len(op.predictions) :
          op.predictions[i] >= 0 /\ op.predictions[i] <= PDen
    /\ (op.weights.kind # "None" =>
          \A i \in 1..Len(op.weights.data) : op.weights.data[i] >= 0)

\* C6: for labels in {0,1}, predictions in [0,1] and weights >= 0, tp and fp are
\* non-increasing and >= 0, tn[i] = fp[0] - fp[i] and fn[i] = tp[0] - tp[i] (so
\* both are >= 0 and non-decreasing), no denominator is zero, and with every
\* label 0, tp is all zero and every precision is 0.
C6_CurveMonotone ==
    C6_Case =>
        LET tp == result.value[1]
            fp == result.value[2]
            tn == result.value[3]
            fn == result.value[4]
            precision == result.value[5]
            recall == result.value[6]
            nt == op.num_thresholds
        IN  /\ \A r \in 1..6 : Len(result.value[r]) = nt
            /\ IsNonIncreasing(tp) /\ tp[nt] >= 0
            /\ IsNonIncreasing(fp) /\ fp[nt] >= 0
            /\ \A i \in 1..nt : tn[i] = fp[1] - fp[i] /\ fn[i] = tp[1] - tp[i]
            /\ \A i \in 1..nt : tn[i] >= 0 /\ fn[i] >= 0
            /\ IsNonDecreasing(tn) /\ IsNonDecreasing(fn)
            /\ \A i \in 1..nt : precision[i].den > 0 /\ recall[i].den > 0
            /\ ((\A i \in 1..Len(op.labels) : op.labels[i] = 0) =>
                  \A i \in 1..nt : tp[i] = 0 /\ precision[i].num = 0)

\* Two negatives in different buckets: fp falls from 2 to 0, tn rises, tp is
\* zero and the precision comes from the epsilon denominator.
C6_Witness ==
    /\ C6_Case
    /\ op.labels = <<0, 0>>
    /\ op.num_thresholds = 3
    /\ result.value[1] = <<0, 0, 0>>
    /\ result.value[2] = <<2, 1, 0>>
    /\ result.value[3] = <<0, 1, 2>>
    /\ result.value[5][3] = [num |-> 0, den |-> 1]

\* The weight each sample of the call carries.
SampleWeights ==
    IF op.weights.kind = "None" THEN Ones(op.labels) ELSE op.weights.data

C11_Case ==
    /\ pc = "done" /\ op.name = "compute_curve"
    /\ \A i \in 1..Len(op.labels) : op.labels[i] \in {0, 1}

\* C11: in compute_curve every sample is counted in some bucket, a prediction
\* below 0 or above 1 in the first or the last one: for labels in {0,1} and any
\* predictions, tp[0] + fp[0] is the total weight of the samples, and so is
\* tp[i] + fp[i] + tn[i] + fn[i] at every threshold index i.
C11_EverySampleCounted ==
    C11_Case =>
        LET tp == result.value[1]
            fp == result.value[2]
            tn == result.value[3]
            fn == result.value[4]
            total == SumSeq(SampleWeights)
        IN  /\ tp[1] + fp[1] = total
            /\ \A i \in 1..op.num_thresholds :
                  tp[i] + fp[i] + tn[i] + fn[i] = total

(***************************************************************************)
(* Claims about video.                                                     *)
(***************************************************************************)
\* C9: when moviepy or moviepy.editor cannot be imported, video does not raise,
\* reports the failure, hands its caller no record and creates no temporary
\* file.
C9_MissingCodecNoRecord ==
    (pc = "done" /\ op.name = "video" /\ vid.missing) =>
        /\ result.kind = "return"
        /\ out \cap {"add_video needs package moviepy",
                     "moviepy is installed, but can't import moviepy.editor."} # {}
        /\ vid.filename = "" /\ fs = {}
        /\ result.value = None

\* C10: when a make_video call that created its temporary .gif file has ended,
\* by return or by exception, the file no longer exists.
C10_TempFileRemoved ==
    (pc = "done" /\ op.name = "video" /\ vid.filename # "") =>
        ~(vid.filename \in fs)

NextTag == CleanTagCall

NextHist == MakeHistogramCall

SpecTag == Init /\ [][NextTag]_vars

SpecHist == Init /\ [][NextHist]_vars

NextCurve == ComputeCurveCall

SpecCurve == Init /\ [][NextCurve]_vars

NextPr == PrCurveCall \/ PrCurveRawCall

SpecPr == Init /\ [][NextPr]_vars

NextAudio == AudioCall

NextVideo ==
    \/ VideoCall
    \/ ImportMoviepy
    \/ ImportEditor
    \/ TempfileOpen
    \/ TempfileClose
    \/ WriteGif
    \/ WriteGifFallback
    \/ ReadBack
    \/ RemoveAndReturn
    \/ VideoReturn

SpecVideo == Init /\ [][NextVideo]_vars

SpecAudio == Init /\ [][NextAudio]_vars

NextInvalid == ScalarCall \/ AudioCall \/ CustomScalarsCall

SpecInvalid == Init /\ [][NextInvalid]_vars

Next ==
    \/ CleanTagCall
    \/ MakeHistogramCall
    \/ ScalarCall
    \/ AudioCall
    \/ CustomScalarsCall
    \/ ComputeCurveCall
    \/ PrCurveCall
    \/ PrCurveRawCall
    \/ HistogramCall
    \/ ImageCall
    \/ ImageBoxesCall
    \/ TextCall
    \/ NextVideo

Spec == Init /\ [][Next]_vars

====
